---- MODULE Spec2Model ----
(***************************************************************************)
(* A model of the RNN-T forward computation in                             *)
(* v0.7/speech_recognition/rnnt/pytorch/model_rnnt.py: RNNT.encode,        *)
(* RNNT.predict, RNNT.joint, RNNT.forward and label_collate.               *)
(*                                                                         *)
(* A tensor is a record [tag, shape, data].  The last axis of a real       *)
(* tensor (the feature axis) is kept as a width in the shape only: data    *)
(* is indexed by the leading axes and each entry is a "leaf" standing for  *)
(* the whole vector along the feature axis.  Leaves are symbolic terms:    *)
(* every layer wraps its argument, so two leaves are equal exactly when    *)
(* they were computed the same way from the same inputs, whatever the      *)
(* weights are.  Label tensors keep their integer entries.                 *)
(***************************************************************************)
EXTENDS Integers, Sequences, FiniteSets, TLC

VARIABLES self, sess, last

vars == <<self, sess, last>>

-----------------------------------------------------------------------------
(* Bounds of the model                                                     *)

MaxHidden == 2      \* hidden widths range over 1..MaxHidden
MaxFactor == 2      \* encoder_stack_time_factor ranges over 1..MaxFactor
NumClasses == 3     \* num_classes (vocabulary size including blank)
MaxB == 2           \* batch sizes range over 1..MaxB
MaxT == 2           \* encoder time extents fed to joint range over 1..MaxT
MaxU == 2           \* label extents range over 0..MaxU
MaxFrames == 4      \* time extents fed to encode range over 1..MaxFrames
MaxSteps == 2       \* labels a streaming session feeds after its bootstrap
MaxRows == 2        \* label_collate: sequences in a ragged batch
MaxLen == 2         \* label_collate: length of one sequence
MaxLabel == 1       \* label_collate: label ids range over 0..MaxLabel

-----------------------------------------------------------------------------
(* Values                                                                  *)

None == [tag |-> "None"]

IsNone(v) == v.tag = "None"

Tensor(shape, data) == [tag |-> "Tensor", shape |-> shape, data |-> data]

Raise(exc, trace) == [err |-> exc, trace |-> trace]

Max(S) == CHOOSE m \in S : \A n \in S : n <= m

\* x.transpose(0, 1) of a tensor with at least two indexed axes
transpose01(x) ==
    Tensor(<<x.shape[2], x.shape[1]>> \o SubSeq(x.shape, 3, Len(x.shape)),
           [i \in 1..x.shape[2] |-> [j \in 1..x.shape[1] |-> x.data[j][i]]])

\* the configuration record bound by __init__
Configs ==
    [ in_features : {2},
      num_classes : {NumClasses},
      encoder_n_hidden : 1..MaxHidden,
      encoder_pre_rnn_layers : {2},
      encoder_post_rnn_layers : {3},
      encoder_stack_time_factor : 1..MaxFactor,
      pred_n_hidden : 1..MaxHidden,
      pred_rnn_layers : {2},
      joint_n_hidden : {4},
      dropout : BOOLEAN ]

-----------------------------------------------------------------------------
(* The recurrent stack (rnn.rnn) and the temporal subsampler               *)
(* (rnn.StackTime): both live in rnn.py, outside the modelled file.        *)

\* The three recurrent stacks built by _encoder and _predict
encoder_pre_rnn(m) ==
    [ name |-> "encoder_pre_rnn", input_size |-> m.in_features,
      hidden_size |-> m.encoder_n_hidden, num_layers |-> m.encoder_pre_rnn_layers ]

encoder_post_rnn(m) ==
    [ name |-> "encoder_post_rnn",
      input_size |-> m.encoder_stack_time_factor * m.encoder_n_hidden,
      hidden_size |-> m.encoder_n_hidden, num_layers |-> m.encoder_post_rnn_layers ]

prediction_dec_rnn(m) ==
    [ name |-> "prediction_dec_rnn", input_size |-> m.pred_n_hidden,
      hidden_size |-> m.pred_n_hidden, num_layers |-> m.pred_rnn_layers ]

\* The recurrent state (h, c) of a stack: shape (L, B, H) and, for each batch
\* element, the inputs consumed since the start of the sequence.
State(shape, hist) == [tag |-> "State", shape |-> shape, hist |-> hist]

\* net(x, state): x is time-major (T, B, I).  Returns the output sequence
\* (T, B, H) and the final state; the state passed in is not written.
rnn_forward(net, x, state) ==
    LET T == x.shape[1]
        B == x.shape[2]
        sshape == <<net.num_layers, B, net.hidden_size>>
    IN  IF x.shape[3] # net.input_size
          THEN Raise("RuntimeError", <<net.name>>)
        ELSE IF ~IsNone(state) /\ state.shape # sshape
          THEN Raise("RuntimeError", <<net.name>>)
        ELSE
          LET init == IF IsNone(state) THEN [b \in 1..B |-> <<>>] ELSE state.hist
              histAt(t, b) == init[b] \o [k \in 1..t |-> x.data[k][b]]
          IN  [ err |-> "OK", trace |-> <<net.name>>,
                out |-> Tensor(<<T, B, net.hidden_size>>,
                          [t \in 1..T |-> [b \in 1..B |->
                              [sym |-> net.name, hist |-> histAt(t, b)]]]),
                hid |-> State(sshape, [b \in 1..B |-> histAt(T, b)]) ]

\* ceil(n / factor)
CeilDiv(n, factor) == (n + factor - 1) \div factor

\* StackTime(factor)(x, x_lens): x is (T, B, H).  Every `factor` consecutive
\* frames become one frame of width H * factor; a short last group is padded
\* with zero frames; lengths are divided by the factor, rounding up.
StackTime(factor, x, x_lens) ==
    LET T == x.shape[1]
        B == x.shape[2]
        T2 == CeilDiv(T, factor)
        frame(t, b) == IF t <= T THEN x.data[t][b] ELSE [sym |-> "zero"]
    IN  [ out |-> Tensor(<<T2, B, x.shape[3] * factor>>,
                    [t \in 1..T2 |-> [b \in 1..B |->
                        [sym |-> "stack",
                         frames |-> [k \in 1..factor |-> frame((t - 1) * factor + k, b)]]]]),
          lens |-> [i \in 1..Len(x_lens) |-> CeilDiv(x_lens[i], factor)] ]

-----------------------------------------------------------------------------
(* RNNT.encode                                                             *)

apply_encode_pre_rnn(m, x_padded) == rnn_forward(encoder_pre_rnn(m), x_padded, None)

apply_encode_post_rnn(m, x_padded) == rnn_forward(encoder_post_rnn(m), x_padded, None)

encode_transpose(x_padded) == transpose01(x_padded)

\* encode that hands back the lengths it was given
encode_stale_lens(m, x_padded, x_lens) ==
    LET a == apply_encode_pre_rnn(m, x_padded)
    IN  IF a.err # "OK"
          THEN Raise(a.err, a.trace)
          ELSE LET s == StackTime(m.encoder_stack_time_factor, a.out, x_lens)
                   p == apply_encode_post_rnn(m, s.out)
               IN  IF p.err # "OK"
                     THEN Raise(p.err, a.trace \o <<"encoder_stack_time">> \o p.trace)
                     ELSE [ err |-> "OK",
                            trace |-> a.trace \o <<"encoder_stack_time">> \o p.trace,
                            x_padded |-> encode_transpose(p.out),
                            x_lens |-> x_lens ]

\* x_padded is time-major (T, B, I), x_lens has one entry per batch element
encode(m, x_padded, x_lens) ==
    LET a == apply_encode_pre_rnn(m, x_padded)
    IN  IF a.err # "OK"
          THEN Raise(a.err, a.trace)
          ELSE LET s == StackTime(m.encoder_stack_time_factor, a.out, x_lens)
                   p == apply_encode_post_rnn(m, s.out)
               IN  IF p.err # "OK"
                     THEN Raise(p.err, a.trace \o <<"encoder_stack_time">> \o p.trace)
                     ELSE [ err |-> "OK",
                            trace |-> a.trace \o <<"encoder_stack_time">> \o p.trace,
                            x_padded |-> encode_transpose(p.out),
                            x_lens |-> s.lens ]

-----------------------------------------------------------------------------
(* RNNT.predict                                                            *)

\* torch.nn.Embedding(vocab_size - 1, pred_n_hidden) applied to y of shape (B, U)
prediction_embed(m, y) ==
    IF \E b \in 1..y.shape[1] : \E u \in 1..y.shape[2] :
           y.data[b][u] \notin 0..(m.num_classes - 2)
      THEN Raise("IndexError", <<"prediction_embed">>)
      ELSE [ err |-> "OK", trace |-> <<"prediction_embed">>,
             out |-> Tensor(<<y.shape[1], y.shape[2], m.pred_n_hidden>>,
                       [b \in 1..y.shape[1] |-> [u \in 1..y.shape[2] |->
                           [sym |-> "emb", id |-> y.data[b][u]]]]) ]

\* predict_input without the assertion on state
predict_input_no_assert(m, y, state) ==
    IF IsNone(y)
      THEN LET B == 1
           IN  [ err |-> "OK", trace |-> <<>>,
                 out |-> Tensor(<<B, 1, m.pred_n_hidden>>,
                           [b \in 1..B |-> [u \in 1..1 |-> [sym |-> "zero"]]]) ]
      ELSE prediction_embed(m, y)

\* predict_input that starts a sequence by embedding a start token
predict_input_sos_token(m, y, state) ==
    IF IsNone(y)
      THEN IF ~IsNone(state)
             THEN Raise("AssertionError", <<>>)
             ELSE prediction_embed(m, Tensor(<<1, 1>>, <<<<0>>>>))
      ELSE prediction_embed(m, y)

\* the input of the decoder stack: lines 229-237
predict_input(m, y, state) ==
    IF IsNone(y)
      THEN IF ~IsNone(state)
             THEN Raise("AssertionError", <<>>)
             ELSE LET B == 1
                  IN  [ err |-> "OK", trace |-> <<>>,
                        out |-> Tensor(<<B, 1, m.pred_n_hidden>>,
                                  [b \in 1..B |-> [u \in 1..1 |-> [sym |-> "zero"]]]) ]
      ELSE prediction_embed(m, y)

\* predict_run with the recurrent state updated in place: the caller's state
\* object holds the new state after the call
predict_run_inplace(m, yin, state) ==
    LET r == rnn_forward(prediction_dec_rnn(m), transpose01(yin), state)
    IN  IF r.err # "OK"
          THEN Raise(r.err, r.trace)
          ELSE [ err |-> "OK", trace |-> r.trace,
                 g |-> transpose01(r.out), hid |-> r.hid, state_arg |-> r.hid ]

\* the decoder stack between the two transposes: lines 247-251.  state_arg
\* is the value the caller's state object holds once the call is over.
predict_run(m, yin, state) ==
    LET r == rnn_forward(prediction_dec_rnn(m), transpose01(yin), state)
    IN  IF r.err # "OK"
          THEN Raise(r.err, r.trace)
          ELSE [ err |-> "OK", trace |-> r.trace,
                 g |-> transpose01(r.out), hid |-> r.hid, state_arg |-> state ]

predict(m, y, state) ==
    LET i == predict_input(m, y, state)
    IN  IF i.err # "OK"
          THEN Raise(i.err, i.trace)
          ELSE LET r == predict_run(m, i.out, state)
               IN  [r EXCEPT !.trace = i.trace \o r.trace]

-----------------------------------------------------------------------------
(* RNNT.joint                                                              *)

\* x.unsqueeze(dim) of x (a, b, w), for dim = 1 and dim = 2
unsqueeze(x, dim) ==
    IF dim = 2
      THEN Tensor(<<x.shape[1], x.shape[2], 1, x.shape[3]>>,
                  [i \in 1..x.shape[1] |-> [j \in 1..x.shape[2] |-> <<x.data[i][j]>>]])
      ELSE Tensor(<<x.shape[1], 1, x.shape[2], x.shape[3]>>,
                  [i \in 1..x.shape[1] |-> <<x.data[i]>>])

\* x.expand(target) of x (a, b, c, w): an axis of extent 1 is repeated, any
\* other axis must already have the target extent
expand(x, target) ==
    IF \E d \in 1..4 : x.shape[d] # target[d] /\ x.shape[d] # 1
      THEN Raise("RuntimeError", <<>>)
      ELSE LET at(d, i) == IF x.shape[d] = 1 THEN 1 ELSE i
           IN  [ err |-> "OK", trace |-> <<>>,
                 out |-> Tensor(target,
                           [i \in 1..target[1] |-> [j \in 1..target[2] |->
                               [k \in 1..target[3] |->
                                   x.data[at(1, i)][at(2, j)][at(3, k)]]]]) ]

\* torch.cat([a, b], dim=3) of two tensors (a, b, c, w)
cat3(a, b) ==
    IF SubSeq(a.shape, 1, 3) # SubSeq(b.shape, 1, 3)
      THEN Raise("RuntimeError", <<>>)
      ELSE [ err |-> "OK", trace |-> <<>>,
             out |-> Tensor(<<a.shape[1], a.shape[2], a.shape[3], a.shape[4] + b.shape[4]>>,
                       [i \in 1..a.shape[1] |-> [j \in 1..a.shape[2] |->
                           [k \in 1..a.shape[3] |->
                               [sym |-> "cat",
                                parts |-> <<a.data[i][j][k], b.data[i][j][k]>>]]]]) ]

\* the layers _joint_net puts in the Sequential
joint_net_layers(m) ==
    << [kind |-> "Linear", name |-> "joint_net.0",
        in |-> m.pred_n_hidden + m.encoder_n_hidden, out |-> m.joint_n_hidden],
       [kind |-> "ReLU"] >>
    \o (IF m.dropout THEN << [kind |-> "Dropout"] >> ELSE << >>)
    \o << [kind |-> "Linear", name |-> "joint_net.last",
           in |-> m.joint_n_hidden, out |-> m.num_classes] >>

\* one layer applied to every vector of x (a, b, c, w).  Dropout is the
\* identity: the module is run for inference.
apply_layer(layer, x) ==
    LET map(w, F(_)) ==
            Tensor(<<x.shape[1], x.shape[2], x.shape[3], w>>,
                   [i \in 1..x.shape[1] |-> [j \in 1..x.shape[2] |->
                       [k \in 1..x.shape[3] |-> F(x.data[i][j][k])]]])
        lin(v) == [sym |-> layer.name, arg |-> v]
        relu(v) == [sym |-> "ReLU", arg |-> v]
    IN  IF layer.kind = "Linear"
          THEN IF x.shape[4] # layer.in
                 THEN Raise("RuntimeError", <<"joint_net">>)
                 ELSE [err |-> "OK", trace |-> <<"joint_net">>, out |-> map(layer.out, lin)]
        ELSE IF layer.kind = "ReLU"
          THEN [err |-> "OK", trace |-> <<"joint_net">>, out |-> map(x.shape[4], relu)]
        ELSE [err |-> "OK", trace |-> <<"joint_net">>, out |-> x]

\* torch.nn.Sequential: the layers in order, stopping at the first failure
RECURSIVE sequential(_, _)
sequential(layers, x) ==
    IF layers = << >>
      THEN [err |-> "OK", trace |-> <<"joint_net">>, out |-> x]
      ELSE LET r == apply_layer(Head(layers), x)
           IN  IF r.err # "OK" THEN r ELSE sequential(Tail(layers), r.out)

joint_net(m, inp) == sequential(joint_net_layers(m), inp)

\* joint with the new axes put in each other's place: f gets its new axis
\* at 1 and g at 2
joint_swapped_axes(m, f, g) ==
    LET T == f.shape[2]
        H == f.shape[3]
        B == g.shape[1]
        U_ == g.shape[2]
        H2 == g.shape[3]
        fe == expand(unsqueeze(f, 1), <<B, T, U_, H>>)
        ge == expand(unsqueeze(g, 2), <<B, T, U_, H2>>)
    IN  IF fe.err # "OK" THEN Raise(fe.err, <<>>)
        ELSE IF ge.err # "OK" THEN Raise(ge.err, <<>>)
        ELSE LET inp == cat3(fe.out, ge.out)
             IN  IF inp.err # "OK"
                   THEN Raise(inp.err, <<>>)
                   ELSE LET r == joint_net(m, inp.out)
                        IN  IF r.err # "OK"
                              THEN Raise(r.err, r.trace)
                              ELSE [err |-> "OK", trace |-> r.trace, res |-> r.out]

\* f is (B, T, H), g is (B, U, H2).  B is bound twice (lines 263-264): the
\* batch size used by both expand calls is the one of g.
joint(m, f, g) ==
    LET T == f.shape[2]
        H == f.shape[3]
        B == g.shape[1]
        U_ == g.shape[2]
        H2 == g.shape[3]
        fe == expand(unsqueeze(f, 2), <<B, T, U_, H>>)
        ge == expand(unsqueeze(g, 1), <<B, T, U_, H2>>)
    IN  IF fe.err # "OK" THEN Raise(fe.err, <<>>)
        ELSE IF ge.err # "OK" THEN Raise(ge.err, <<>>)
        ELSE LET inp == cat3(fe.out, ge.out)
             IN  IF inp.err # "OK"
                   THEN Raise(inp.err, <<>>)
                   ELSE LET r == joint_net(m, inp.out)
                        IN  IF r.err # "OK"
                              THEN Raise(r.err, r.trace)
                              ELSE [err |-> "OK", trace |-> r.trace, res |-> r.out]

-----------------------------------------------------------------------------
(* RNNT.forward                                                            *)

\* forward that encodes its input before it gives up
forward_partial(m, x_padded, x_lens, y_packed, y_lens, state) ==
    Raise("RuntimeError", encode(m, x_padded, x_lens).trace)

\* the raise is the first statement; the statements after it never run
forward(m, x_padded, x_lens, y_packed, y_lens, state) ==
    Raise("RuntimeError", <<>>)

-----------------------------------------------------------------------------
(* label_collate                                                           *)

\* The value an integer has once stored at the given width.  Label ids are
\* indexes into the vocabulary: every id the model ranges over lies in
\* 0..MaxLabel, far inside the 32-bit range, where a store at 32 or at 64
\* bits keeps the value.
AsInt32(v) == v

AsInt64(v) == v

LabelTensor(dtype, shape, data) ==
    [tag |-> "Tensor", dtype |-> dtype, shape |-> shape, data |-> data]

List(items) == [tag |-> "list", items |-> items]

\* label_collate that pushes each sequence to the end of its row
label_collate_right_aligned(labels) ==
    IF labels.tag = "Tensor"
      THEN [ err |-> "OK",
             out |-> LabelTensor("int64", labels.shape,
                       [i \in 1..labels.shape[1] |-> [j \in 1..labels.shape[2] |->
                           AsInt64(labels.data[i][j])]]) ]
    ELSE IF labels.tag # "list"
      THEN [err |-> "ValueError"]
    ELSE IF labels.items = << >>
      THEN [err |-> "ValueError"]
    ELSE
      LET batch_size == Len(labels.items)
          max_len == Max({Len(labels.items[e]) : e \in 1..batch_size})
          cat_labels == [e \in 1..batch_size |-> [j \in 1..max_len |->
                            LET k == j - (max_len - Len(labels.items[e]))
                            IN  IF k >= 1 THEN AsInt32(labels.items[e][k])
                                          ELSE AsInt32(0)]]
      IN  [ err |-> "OK",
            out |-> LabelTensor("int64", <<batch_size, max_len>>,
                      [e \in 1..batch_size |-> [j \in 1..max_len |->
                          AsInt64(cat_labels[e][j])]]) ]

label_collate(labels) ==
    IF labels.tag = "Tensor"
      THEN [ err |-> "OK",
             out |-> LabelTensor("int64", labels.shape,
                       [i \in 1..labels.shape[1] |-> [j \in 1..labels.shape[2] |->
                           AsInt64(labels.data[i][j])]]) ]
    ELSE IF labels.tag # "list"
      THEN [err |-> "ValueError"]
    ELSE IF labels.items = << >>
      THEN [err |-> "ValueError"]      \* max() of an empty sequence
    ELSE
      LET batch_size == Len(labels.items)
          max_len == Max({Len(labels.items[e]) : e \in 1..batch_size})
          cat_labels == [e \in 1..batch_size |-> [j \in 1..max_len |->
                            IF j <= Len(labels.items[e])
                              THEN AsInt32(labels.items[e][j])
                              ELSE AsInt32(0)]]
      IN  [ err |-> "OK",
            out |-> LabelTensor("int64", <<batch_size, max_len>>,
                      [e \in 1..batch_size |-> [j \in 1..max_len |->
                          AsInt64(cat_labels[e][j])]]) ]

-----------------------------------------------------------------------------
(* Streaming decoding sessions: each caller owns its recurrent state       *)

Sessions == {"A", "B"}

Labels == 0..(NumClasses - 2)

OneLabel(l) == Tensor(<<1, 1>>, <<<<l>>>>)

Idle == [op |-> "none"]

\* the start-of-sequence call predict(None, None) of session s
Bootstrap(s) ==
    /\ last = Idle
    /\ ~sess[s].started
    /\ LET r == predict(self, None, None)
       IN  /\ r.err = "OK"
           /\ sess' = [sess EXCEPT ![s] =
                  [started |-> TRUE, state |-> r.hid, labels |-> <<>>,
                   gs |-> <<r.g.data[1][1]>>]]
    /\ UNCHANGED <<self, last>>

\* session s feeds label l with the state of its previous call and keeps
\* the state the call returns
Step(s, l) ==
    /\ last = Idle
    /\ sess[s].started
    /\ Len(sess[s].labels) < MaxSteps
    /\ LET r == predict(self, OneLabel(l), sess[s].state)
       IN  /\ r.err = "OK"
           /\ sess' = [sess EXCEPT ![s] =
                  [started |-> TRUE, state |-> r.hid,
                   labels |-> Append(sess[s].labels, l),
                   gs |-> Append(sess[s].gs, r.g.data[1][1])]]
    /\ UNCHANGED <<self, last>>

\* session s tries label l but drops the returned state (the step emitted
\* blank): it goes on with the state object it passed in
Probe(s, l) ==
    /\ last = Idle
    /\ sess[s].started
    /\ LET r == predict(self, OneLabel(l), sess[s].state)
       IN  /\ r.err = "OK"
           /\ sess' = [sess EXCEPT ![s].state = r.state_arg]
           /\ last' = [op |-> "probe", session |-> s, y |-> OneLabel(l),
                       state |-> sess[s].state, res |-> r]
    /\ UNCHANGED self

Return ==
    /\ last # Idle
    /\ last' = Idle
    /\ UNCHANGED <<self, sess>>

NoSession == [started |-> FALSE, state |-> None, labels |-> <<>>, gs |-> <<>>]

\* the model after construction, no call made yet
Init ==
    /\ self \in Configs
    /\ sess = [s \in Sessions |-> NoSession]
    /\ last = Idle

\* predict reads pred_n_hidden and num_classes only: for the sessions the
\* fields it does not read are held at one value
InitSessions ==
    /\ self \in { c \in Configs : /\ c.encoder_n_hidden = 1
                                  /\ c.encoder_stack_time_factor = 1
                                  /\ ~c.dropout }
    /\ sess = [s \in Sessions |-> NoSession]
    /\ last = Idle

NextSessions ==
    \/ \E s \in Sessions : Bootstrap(s)
    \/ \E s \in Sessions : \E l \in Labels : Step(s, l)
    \/ \E s \in Sessions : \E l \in Labels : Probe(s, l)
    \/ Return

SpecSessions == InitSessions /\ [][NextSessions]_vars

-----------------------------------------------------------------------------
(* Single calls on the model: the caller makes a call, holds its result    *)
(* in `last`, and may feed a returned state into its next call             *)

\* an input tensor (d1, d2, w) whose vectors are all distinct unknowns
SymTensor(name, d1, d2, w) ==
    Tensor(<<d1, d2, w>>,
           [i \in 1..d1 |-> [j \in 1..d2 |-> [sym |-> name, i |-> i, j |-> j]]])

\* a label tensor (B, U) filled with label l
FillLabels(B, U, l) == Tensor(<<B, U>>, [b \in 1..B |-> [u \in 1..U |-> l]])

\* label tensors handed to predict; label NumClasses - 1 is the blank, which
\* the embedding table does not hold
PredictLabels ==
    {None} \cup { FillLabels(B, U, l) : B \in 1..MaxB, U \in 0..MaxU, l \in 0..(NumClasses - 1) }

\* the recurrent states the caller can pass: none, or the one its previous
\* predict call returned
HeldStates ==
    IF last = Idle THEN {None}
    ELSE IF last.op = "predict" /\ last.res.err = "OK" /\ IsNone(last.state)
      THEN {last.res.hid}
    ELSE {}

PredictCall ==
    /\ \E st \in HeldStates : \E y \in PredictLabels :
          last' = [op |-> "predict", y |-> y, state |-> st, res |-> predict(self, y, st)]
    /\ UNCHANGED <<self, sess>>

ForwardCall ==
    /\ \E st \in HeldStates :
        \E T \in 1..MaxFrames : \E B \in 1..MaxB : \E U \in 0..MaxU :
          LET x_padded == SymTensor("x", T, B, self.in_features)
              x_lens == [i \in 1..B |-> T]
              y_packed == FillLabels(B, U, 0)
              y_lens == [i \in 1..B |-> U]
          IN  last' = [op |-> "forward", x_padded |-> x_padded, x_lens |-> x_lens,
                       y_packed |-> y_packed, y_lens |-> y_lens, state |-> st,
                       res |-> forward(self, x_padded, x_lens, y_packed, y_lens, st)]
    /\ UNCHANGED <<self, sess>>

EncodeCall ==
    /\ last = Idle
    /\ \E T \in 1..MaxFrames : \E B \in 1..MaxB :
       \E F \in {self.in_features, self.in_features + 1} : \E x_lens \in [1..B -> 0..T] :
       LET x_padded == SymTensor("x", T, B, F)
       IN  last' = [op |-> "encode", x_padded |-> x_padded, x_lens |-> x_lens,
                    res |-> encode(self, x_padded, x_lens)]
    /\ UNCHANGED <<self, sess>>

NoBase == [tag |-> "None"]

JointCall ==
    /\ last = Idle
    /\ \E B1 \in 1..MaxB : \E T \in 1..MaxT : \E H1 \in 1..MaxHidden :
       \E B2 \in 1..MaxB : \E U \in 1..MaxU : \E H2 \in 1..MaxHidden :
       LET f == SymTensor("f", B1, T, H1)
           g == SymTensor("g", B2, U, H2)
       IN  last' = [op |-> "joint", f |-> f, g |-> g, res |-> joint(self, f, g),
                    base |-> NoBase]
    /\ UNCHANGED <<self, sess>>

\* the caller repeats its joint call with one vector of one input replaced
\* by another unknown
JointPerturb ==
    /\ last.op = "joint"
    /\ last.res.err = "OK"
    /\ IsNone(last.base)
    /\ \E which \in {"f", "g"} : \E b \in 1..MaxB : \E i \in 1..Max({MaxT, MaxU}) :
       LET x == IF which = "f" THEN last.f ELSE last.g
           other == [sym |-> "perturbed"]
       IN  /\ b \in 1..x.shape[1]
           /\ i \in 1..x.shape[2]
           /\ LET x2 == [x EXCEPT !.data[b][i] = other]
                  f == IF which = "f" THEN x2 ELSE last.f
                  g == IF which = "g" THEN x2 ELSE last.g
              IN  last' = [op |-> "joint", f |-> f, g |-> g, res |-> joint(self, f, g),
                           base |-> [tag |-> "Base", f |-> last.f, g |-> last.g,
                                     res |-> last.res]]
    /\ UNCHANGED <<self, sess>>

Next ==
    \/ PredictCall
    \/ ForwardCall
    \/ Return

Spec == Init /\ [][Next]_vars

\* encode reads in_features, encoder_n_hidden and the stacking factor
InitEncode ==
    /\ self \in { c \in Configs : c.pred_n_hidden = 1 /\ ~c.dropout }
    /\ sess = [s \in Sessions |-> NoSession]
    /\ last = Idle

NextEncode ==
    \/ EncodeCall
    \/ Return

SpecEncode == InitEncode /\ [][NextEncode]_vars

\* joint reads both hidden widths, num_classes and dropout
InitJoint ==
    /\ self \in { c \in Configs : c.encoder_stack_time_factor = 1 }
    /\ sess = [s \in Sessions |-> NoSession]
    /\ last = Idle

NextJoint ==
    \/ JointCall
    \/ JointPerturb
    \/ Return

SpecJoint == InitJoint /\ [][NextJoint]_vars

-----------------------------------------------------------------------------
(* label_collate is a function of the module: no model is involved         *)

SeqsUpTo(S, n) == UNION { [1..k -> S] : k \in 0..n }

\* one call of label_collate on `labels`
Collated(labels) ==
    last' = [op |-> "collate", labels |-> labels, res |-> label_collate(labels)]

\* the argument is a ragged list of label sequences, a padded integer
\* tensor, or something that is neither
CollateCall ==
    /\ last = Idle
    /\ \/ \E B \in 0..MaxRows : \E items \in [1..B -> SeqsUpTo(0..MaxLabel, MaxLen)] :
             Collated(List(items))
       \/ \E B \in 1..MaxRows : \E L \in 0..MaxLen : \E dtype \in {"int32", "int64"} :
             \E data \in [1..B -> [1..L -> 0..MaxLabel]] :
               Collated(LabelTensor(dtype, <<B, L>>, data))
       \/ Collated([tag |-> "str"])
    /\ UNCHANGED <<self, sess>>

InitCollate ==
    /\ self = None
    /\ sess = [s \in Sessions |-> NoSession]
    /\ last = Idle

NextCollate ==
    \/ CollateCall
    \/ Return

SpecCollate == InitCollate /\ [][NextCollate]_vars

-----------------------------------------------------------------------------
(* Properties of single calls                                              *)

\* the call held in `last` is predict(labels, None) on a label tensor whose
\* entries the embedding table holds
LabelsOnlyCall ==
    /\ last.op = "predict"
    /\ ~IsNone(last.y)
    /\ IsNone(last.state)
    /\ \A b \in 1..last.y.shape[1] : \A u \in 1..last.y.shape[2] :
           last.y.data[b][u] \in 0..(self.num_classes - 2)

\* C1: predict(labels, None) on a label tensor (B, U) returns decoded
\* features of shape (B, U + 1, H), H the predictor hidden width.
C1_PredictExtent ==
    LabelsOnlyCall =>
        /\ last.res.err = "OK"
        /\ last.res.g.shape =
               <<last.y.shape[1], last.y.shape[2] + 1, self.pred_n_hidden>>

\* C3: predict with labels absent and a state present fails with the
\* assertion error before the embedding or the decoder stack is invoked,
\* and returns neither decoded features nor a new state.
C3_StateWithoutLabelsFails ==
    (last.op = "predict" /\ IsNone(last.y) /\ ~IsNone(last.state)) =>
        /\ last.res.err = "AssertionError"
        /\ last.res.trace = << >>
        /\ DOMAIN last.res = {"err", "trace"}

C3_Witness ==
    /\ last.op = "predict"
    /\ IsNone(last.y)
    /\ ~IsNone(last.state)
    /\ last.state.shape = <<self.pred_rnn_layers, 1, self.pred_n_hidden>>

\* C4: joint fails whenever the batch sizes of encoded and decoded differ.
C4_BatchMismatchFails ==
    (last.op = "joint" /\ last.f.shape[1] # last.g.shape[1]) =>
        last.res.err # "OK"

\* the vector that joint_net computes from one encoder vector and one
\* predictor vector is what the layers make of their concatenation
JointInputsFit ==
    /\ last.op = "joint"
    /\ last.f.shape[1] = last.g.shape[1]
    /\ last.f.shape[3] + last.g.shape[3] = self.pred_n_hidden + self.encoder_n_hidden

\* C5: for encoded (B, T, H1) and decoded (B, U, H2) that fit the joint
\* network, joint returns logits of shape (B, T, U, V), and after one
\* encoded or decoded vector is replaced, every slice (b, t, u) whose
\* encoded[b, t] and decoded[b, u] were not replaced is unchanged.
C5_JointShapeAndLocality ==
    JointInputsFit =>
        /\ last.res.err = "OK"
        /\ last.res.res.shape =
               <<last.f.shape[1], last.f.shape[2], last.g.shape[2], self.num_classes>>
        /\ ~IsNone(last.base) =>
               \A b \in 1..last.f.shape[1] : \A t \in 1..last.f.shape[2] :
                   \A u \in 1..last.g.shape[2] :
                       (/\ last.f.data[b][t] = last.base.f.data[b][t]
                        /\ last.g.data[b][u] = last.base.g.data[b][u])
                       => last.res.res.data[b][t][u] = last.base.res.res.data[b][t][u]

C5_Witness ==
    /\ JointInputsFit
    /\ ~IsNone(last.base)
    /\ last.f.shape = <<2, 2, self.encoder_n_hidden>>
    /\ last.g.shape = <<2, 2, self.pred_n_hidden>>
    /\ last.f.data[2][1] # last.base.f.data[2][1]
    /\ last.res.res.data[2][1][2] # last.base.res.res.data[2][1][2]
    /\ last.res.res.data[2][2][2] = last.base.res.res.data[2][2][2]

\* C7: forward fails with the runtime error on every input and for every
\* model, and invokes neither encode, predict nor joint.
C7_ForwardUnsupported ==
    last.op = "forward" =>
        /\ last.res.err = "RuntimeError"
        /\ last.res.trace = << >>
        /\ DOMAIN last.res = {"err", "trace"}

C7_Witness ==
    /\ last.op = "forward"
    /\ ~IsNone(last.state)
    /\ last.x_padded.shape[1] > 1
    /\ last.y_packed.shape[2] > 0

\* the call held in `last` is encode on features of the configured width
\* with every length at most the time extent
ValidEncodeCall ==
    /\ last.op = "encode"
    /\ last.x_padded.shape[3] = self.in_features
    /\ \A i \in 1..Len(last.x_lens) : last.x_lens[i] <= last.x_padded.shape[1]

\* C9: encode of a valid time-major input (T, B, F) returns a batch-major
\* tensor (B, T', H) with T' = ceil(T / factor), the time extent the
\* subsampler produced, and encoded_lengths[i] = ceil(lengths[i] / factor)
\* for every i, none of them above T'.
C9_EncodeSubsampling ==
    ValidEncodeCall =>
        LET T == last.x_padded.shape[1]
            B == last.x_padded.shape[2]
            factor == self.encoder_stack_time_factor
            sub == StackTime(factor, apply_encode_pre_rnn(self, last.x_padded).out,
                             last.x_lens)
        IN  /\ last.res.err = "OK"
            /\ last.res.x_padded.shape = <<B, CeilDiv(T, factor), self.encoder_n_hidden>>
            /\ last.res.x_padded.shape[2] = sub.out.shape[1]
            /\ Len(last.res.x_lens) = B
            /\ \A i \in 1..B :
                   /\ last.res.x_lens[i] = CeilDiv(last.x_lens[i], factor)
                   /\ last.res.x_lens[i] <= last.res.x_padded.shape[2]

C9_Witness ==
    /\ ValidEncodeCall
    /\ self.encoder_stack_time_factor = 2
    /\ last.x_padded.shape[1] = 3
    /\ last.x_lens = <<3, 2>>
    /\ last.res.x_lens = <<2, 1>>

\* C10: predict(None, None) feeds one zero vector of batch size 1 to the
\* decoder stack, makes no embedding lookup, and returns decoded features
\* of shape (1, 1, H), H the predictor hidden width.
C10_Bootstrap ==
    (last.op = "predict" /\ IsNone(last.y) /\ IsNone(last.state)) =>
        /\ last.res.err = "OK"
        /\ last.res.trace = <<"prediction_dec_rnn">>
        /\ last.res.g.shape = <<1, 1, self.pred_n_hidden>>
        /\ last.res.g.data[1][1] =
               [sym |-> "prediction_dec_rnn", hist |-> <<[sym |-> "zero"]>>]
        /\ last.res.hid.shape = <<self.pred_rnn_layers, 1, self.pred_n_hidden>>

C10_Witness ==
    /\ last.op = "predict"
    /\ IsNone(last.y)
    /\ IsNone(last.state)
    /\ self.pred_n_hidden = MaxHidden

-----------------------------------------------------------------------------
(* Properties of label_collate                                             *)

\* C8: for a ragged batch of B sequences, label_collate returns a
\* (B, max_len) tensor whose row i holds sequence i in its first
\* len(sequence i) entries and 0 in the rest; for a padded integer tensor
\* it returns a 64-bit integer tensor of the same shape and entries.
C8_CollateRoundTrip ==
    /\ (last.op = "collate" /\ last.labels.tag = "list" /\ last.labels.items # << >>) =>
          LET items == last.labels.items
              B == Len(items)
              max_len == Max({Len(items[i]) : i \in 1..B})
          IN  /\ last.res.err = "OK"
              /\ last.res.out.shape = <<B, max_len>>
              /\ \A i \in 1..B :
                     /\ Len(last.res.out.data[i]) = max_len
                     /\ SubSeq(last.res.out.data[i], 1, Len(items[i])) = items[i]
                     /\ \A j \in (Len(items[i]) + 1)..max_len : last.res.out.data[i][j] = 0
    /\ (last.op = "collate" /\ last.labels.tag = "Tensor") =>
          /\ last.res.err = "OK"
          /\ last.res.out.dtype = "int64"
          /\ last.res.out.shape = last.labels.shape
          /\ last.res.out.data = last.labels.data

C8_Witness ==
    /\ last.op = "collate"
    /\ last.labels.tag = "list"
    /\ last.labels.items = << <<1, 0>>, <<1>> >>
    /\ last.res.out.data = << <<1, 0>>, <<1, 0>> >>

-----------------------------------------------------------------------------
(* Properties of the streaming sessions                                    *)

\* what a session that feeds `labels` gets when it runs alone: the bootstrap
\* call, then one call per label with the state of the call before
RECURSIVE Streamed(_, _)
Streamed(m, labels) ==
    IF labels = <<>>
      THEN LET r == predict(m, None, None)
           IN  [state |-> r.hid, gs |-> <<r.g.data[1][1]>>]
      ELSE LET p == Streamed(m, SubSeq(labels, 1, Len(labels) - 1))
               r == predict(m, OneLabel(labels[Len(labels)]), p.state)
           IN  [state |-> r.hid, gs |-> Append(p.gs, r.g.data[1][1])]

\* one predict call over the whole label sequence of a session, no state
OneShot(m, labels) == predict(m, Tensor(<<1, Len(labels)>>, <<labels>>), None)

\* C2: streaming equivalence.  For a session that has made its bootstrap
\* call and fed U labels one at a time, the one-shot call over the same U
\* labels succeeds and the decoded vector at each of its positions equals
\* the vector the session got at that position.
C2_StreamingEquivalence ==
    \A s \in Sessions :
        sess[s].started =>
            LET full == OneShot(self, sess[s].labels)
            IN  /\ full.err = "OK"
                /\ \A p \in 1..full.g.shape[2] :
                       /\ p <= Len(sess[s].gs)
                       /\ full.g.data[1][p] = sess[s].gs[p]

\* C6: predictor purity and session independence.  Whatever the
\* interleaving of the two sessions' calls, each session holds the decoded
\* vectors and the state it gets when it feeds its labels alone, and a call
\* whose returned state was dropped left the state passed to it as it was.
C6_SessionIndependence ==
    /\ \A s \in Sessions :
          sess[s].started =>
              /\ sess[s].gs = Streamed(self, sess[s].labels).gs
              /\ sess[s].state = Streamed(self, sess[s].labels).state
    /\ last.op = "probe" => sess[last.session].state = last.state

C6_Witness ==
    /\ sess["A"].labels = <<0, 1>>
    /\ sess["B"].labels = <<1>>
    /\ last.op = "probe"
    /\ last.session = "A"

====
